---- MODULE Spec2Model ----
(***************************************************************************)
(* A model of p1bench.c (perturbation benchmark): the calibration probe    *)
(* and find_count, the memory-scan loops, the run loop of main, the        *)
(* histogram post-processing and the percentile summary.                   *)
(*                                                                         *)
(* C types are modelled at their width.  An unsigned long long is an       *)
(* arbitrary-precision natural (a little-endian sequence of 15-bit limbs,  *)
(* because TLC's integers are 32 bits wide) reduced modulo 2^64;         *)
(* a double is an IEEE-754 binary64 value with round-to-nearest-even.      *)
(***************************************************************************)
EXTENDS Integers, Sequences, FiniteSets, TLC

(***************************************************************************)
(* Arbitrary-precision naturals.                                           *)
(***************************************************************************)
LimbBits == 3 * 5
LimbBase == 8 * 4096

\* 2^k for 0 <= k <= 30
Pow2(k) ==
    <<1, 2, 4, 8, 16, 32, 64, 128, 256, 512, 1024, 2048, 4096, 8192, 16384, 32768,
      65536, 131072, 262144, 524288, 1048576, 2097152, 4194304, 8388608, 16777216,
      33554432, 67108864, 134217728, 268435456, 536870912, 1073741824>>[k + 1]

\* the sum of h[lo..hi]
RECURSIVE SumRange(_, _, _)
SumRange(h, lo, hi) ==
    IF lo > hi THEN 0
    ELSE IF lo = hi THEN h[lo]
    ELSE SumRange(h, lo, (lo + hi) \div 2) + SumRange(h, (lo + hi) \div 2 + 1, hi)

SetMax(S) == CHOOSE x \in S : \A y \in S : y <= x

\* limbs without the zero limbs at the top
BigNorm(a) == SubSeq(a, 1, SetMax({0} \cup {k \in 1..Len(a) : a[k] # 0}))

\* the limbs of n, 0 <= n < 2^31
BigOf(n) == BigNorm(<<n % LimbBase, (n \div LimbBase) % LimbBase,
                      n \div (LimbBase * LimbBase)>>)

BigZero == <<>>
BigOne == <<1>>

BigCmp(a, b) ==
    IF Len(a) < Len(b) THEN -1
    ELSE IF Len(a) > Len(b) THEN 1
    ELSE LET D == {k \in 1..Len(a) : a[k] # b[k]}
         IN  IF D = {} THEN 0
             ELSE IF a[SetMax(D)] < b[SetMax(D)] THEN -1 ELSE 1

BigLt(a, b) == BigCmp(a, b) < 0
BigLe(a, b) == BigCmp(a, b) <= 0

Limb(a, i) == IF i >= 1 /\ i <= Len(a) THEN a[i] ELSE 0

\* one pass of carries: each column keeps its low limb and takes the rest of
\* the column below
BigCarryPass(c, n) ==
    SubSeq([k \in 1..n |-> (Limb(c, k) % LimbBase) + (Limb(c, k - 1) \div LimbBase)],
           1, n)

\* The natural whose columns are c (column k weighs LimbBase^(k-1), each
\* column below 2^30).  After two passes every column is at most LimbBase; the
\* last carries are 0 or 1, and one enters column k when a column below is
\* full (LimbBase) and all columns between are LimbBase - 1 or full.
BigCarry(c) ==
    LET n == Len(c) + 2
        c2 == BigCarryPass(BigCarryPass(c, n), n)
        cin(k) == \E j \in 1..(k - 1) :
                     /\ c2[j] = LimbBase
                     /\ \A m \in (j + 1)..(k - 1) : c2[m] >= LimbBase - 1
    IN  BigNorm(SubSeq([k \in 1..n |-> (c2[k] + (IF cin(k) THEN 1 ELSE 0)) % LimbBase],
                       1, n))

BigAdd(a, b) ==
    LET n == IF Len(a) > Len(b) THEN Len(a) ELSE Len(b)
    IN  BigCarry(SubSeq([k \in 1..n |-> Limb(a, k) + Limb(b, k)], 1, n))

\* a - b for a >= b: a plus the complement of b, less LimbBase^Len(a)
BigSub(a, b) ==
    LET n == Len(a)
    IN  BigNorm(SubSeq(BigCarry(SubSeq([k \in 1..n |->
                           a[k] + (LimbBase - 1 - Limb(b, k)) + (IF k = 1 THEN 1 ELSE 0)],
                           1, n)), 1, n))

\* a * k for 0 <= k < LimbBase
BigMulSmall(a, k) == BigCarry(SubSeq([i \in 1..Len(a) |-> a[i] * k], 1, Len(a)))

\* column k of a * b: the low limbs of the products a[i] * b[j] with
\* i + j = k + 1 and the high limbs of those with i + j = k
BigMulColumn(a, b, k) ==
    SumRange([i \in 1..Len(a) |->
                 ((a[i] * Limb(b, k + 1 - i)) % LimbBase)
                 + ((a[i] * Limb(b, k - i)) \div LimbBase)], 1, Len(a))

BigMul(a, b) ==
    IF b = <<>> \/ a = <<>> THEN <<>>
    ELSE BigCarry(SubSeq([k \in 1..(Len(a) + Len(b)) |-> BigMulColumn(a, b, k)],
                         1, Len(a) + Len(b)))

BigIsOdd(a) == a # <<>> /\ a[1] % 2 = 1

\* the number of bits of n, 0 <= n < 2^31
SmallBitLen(n) == Cardinality({k \in 0..30 : Pow2(k) <= n})

BigBitLen(a) ==
    IF a = <<>> THEN 0 ELSE LimbBits * (Len(a) - 1) + SmallBitLen(a[Len(a)])

\* a * 2^k: each limb of the result is the low bits of one limb of a, shifted
\* up, over the high bits of the limb below
BigShl(a, k) ==
    LET w == k \div LimbBits
        s == k % LimbBits
    IN  IF a = <<>> THEN <<>>
        ELSE BigNorm([j \in 1..(Len(a) + w + 1) |->
                        ((Limb(a, j - w) % Pow2(LimbBits - s)) * Pow2(s))
                        + (Limb(a, j - w - 1) \div Pow2(LimbBits - s))])

\* floor(a / 2^k)
BigShr(a, k) ==
    LET w == k \div LimbBits
        s == k % LimbBits
    IN  IF w >= Len(a) THEN <<>>
        ELSE BigNorm([j \in 1..(Len(a) - w) |->
                        (a[j + w] \div Pow2(s))
                        + ((Limb(a, j + w + 1) % Pow2(s)) * Pow2(LimbBits - s))])

\* The largest d with d * b <= cur, for cur < b * LimbBase and the top limb of
\* b at least LimbBase / 2: the quotient of the top limbs is d, d + 1 or d + 2.
BigQuotDigit(cur, b) ==
    LET n == Len(b)
        top == Limb(cur, n + 1) * LimbBase + Limb(cur, n)
        est == IF top \div b[n] >= LimbBase THEN LimbBase - 1 ELSE top \div b[n]
    IN  IF BigLe(BigMulSmall(b, est), cur) THEN est
        ELSE IF BigLe(BigMulSmall(b, est - 1), cur) THEN est - 1
        ELSE est - 2

\* one step of the long division: h is the quotient and remainder of the limbs
\* above, limb the next limb down
BigDivStep(h, limb, b) ==
    IF h.r = <<>> /\ limb = 0 THEN [q |-> BigNorm(<<0>> \o h.q), r |-> <<>>]
    ELSE LET cur == <<limb>> \o h.r
             d == BigQuotDigit(cur, b)
         IN  [q |-> BigNorm(<<d>> \o h.q), r |-> BigSub(cur, BigMulSmall(b, d))]

RECURSIVE BigDivModFrom(_, _, _)
\* the limbs of a from i up, divided by b; the top Len(b) - 1 limbs of a are
\* below b and start as the remainder
BigDivModFrom(a, b, i) ==
    IF i > Len(a) - Len(b) + 1 THEN [q |-> <<>>, r |-> SubSeq(a, i, Len(a))]
    ELSE BigDivStep(BigDivModFrom(a, b, i + 1), a[i], b)

\* quotient and remainder of a by b # 0: long division, limb by limb, of the
\* operands shifted so that the top limb of the divisor has its top bit set
BigDivMod(a, b) ==
    LET s == LimbBits - SmallBitLen(b[Len(b)])
        d == BigDivModFrom(BigShl(a, s), BigShl(b, s), 1)
    IN  [q |-> d.q, r |-> BigShr(d.r, s)]

\* the value of a natural below 2^31 held as limbs
BigToNat(a) == Limb(a, 1) + LimbBase * Limb(a, 2) + LimbBase * LimbBase * Limb(a, 3)

(***************************************************************************)
(* unsigned long long: naturals modulo 2^64.                               *)
(***************************************************************************)
Two64 == BigShl(BigOne, 64)
ULLONG_MAX == BigSub(Two64, BigOne)

U64(a) ==
    IF BigLt(a, Two64) THEN a
    ELSE BigNorm(<<a[1], a[2], a[3], a[4], a[5] % Pow2(64 - 4 * LimbBits)>>)
U64Add(a, b) == U64(BigAdd(a, b))
U64Sub(a, b) == IF BigLe(b, a) THEN BigSub(a, b) ELSE BigSub(BigAdd(a, Two64), b)
U64Mul(a, b) == U64(BigMul(a, b))

(***************************************************************************)
(* int: 32 bits, two's complement.                                         *)
(***************************************************************************)
INT_MAX == 2147483647 + 0
INT_MIN == (-2147483647) - 1

\* a + b for b >= 0, wrapping as the two's-complement add gcc -O0 emits
IntAddWrap(a, b) == IF a > INT_MAX - b THEN INT_MIN + (b - (INT_MAX - a) - 1) ELSE a + b

\* the int holding the low 32 bits of an unsigned long long
IntOfLow32(a) ==
    LET l1 == Limb(a, 1)
        l2 == Limb(a, 2)
        l3 == Limb(a, 3) % 4
    IN  IF l3 >= 2
        THEN ((l3 - 4) * LimbBase + l2) * LimbBase + l1
        ELSE (l3 * LimbBase + l2) * LimbBase + l1

(***************************************************************************)
(* double: IEEE-754 binary64.  A finite value is (-1)^neg * m * 2^e with   *)
(* m = 0 or 2^52 <= m < 2^53; every operation rounds to nearest, ties to   *)
(* even.  The exponent is not bounded: the values the program forms from   *)
(* 64-bit integers stay far inside the binary64 exponent range.  Zero is   *)
(* kept unsigned: the program never divides by a computed zero.            *)
(***************************************************************************)
MantBits == 50 + 3

DNaN == [cls |-> "nan", neg |-> FALSE, m |-> <<>>, e |-> 0]
DInf(neg) == [cls |-> "inf", neg |-> neg, m |-> <<>>, e |-> 0]
DZero == [cls |-> "fin", neg |-> FALSE, m |-> <<>>, e |-> 0]
DIsZero(x) == x.cls = "fin" /\ x.m = <<>>

\* n * 2^e (plus a nonzero fraction of n's last place when sticky) rounded
DRound(neg, n, e, sticky) ==
    LET L == BigBitLen(n)
        d == L - MantBits
    IN  IF n = <<>> THEN DZero
        ELSE IF d <= 0
        THEN [cls |-> "fin", neg |-> neg, m |-> BigShl(n, -d), e |-> e + d]
        ELSE LET q == BigShr(n, d)
                 h == BigShr(n, d - 1)
                 rest == sticky \/ BigShl(h, d - 1) # n
                 up == BigIsOdd(h) /\ (rest \/ BigIsOdd(q))
                 q1 == IF up THEN BigAdd(q, BigOne) ELSE q
             IN  IF BigBitLen(q1) > MantBits
                 THEN [cls |-> "fin", neg |-> neg, m |-> BigShr(q1, 1), e |-> e + d + 1]
                 ELSE [cls |-> "fin", neg |-> neg, m |-> q1, e |-> e + d]

\* (double)x for an unsigned long long x
DFromU64(x) == DRound(FALSE, x, 0, FALSE)
\* (double)i for an int i
DFromInt(i) == DRound(i < 0, BigOf(IF i < 0 THEN -i ELSE i), 0, FALSE)

DNeg(x) == IF x.cls = "nan" \/ DIsZero(x) THEN x ELSE [x EXCEPT !.neg = ~x.neg]

DAdd(x, y) ==
    IF x.cls = "nan" \/ y.cls = "nan" THEN DNaN
    ELSE IF x.cls = "inf"
    THEN (IF y.cls = "inf" /\ y.neg # x.neg THEN DNaN ELSE x)
    ELSE IF y.cls = "inf" THEN y
    ELSE IF DIsZero(x) THEN y
    ELSE IF DIsZero(y) THEN x
    ELSE LET e0 == IF x.e < y.e THEN x.e ELSE y.e
             X == BigShl(x.m, x.e - e0)
             Y == BigShl(y.m, y.e - e0)
         IN  IF x.neg = y.neg THEN DRound(x.neg, BigAdd(X, Y), e0, FALSE)
             ELSE IF BigLt(X, Y) THEN DRound(y.neg, BigSub(Y, X), e0, FALSE)
             ELSE DRound(x.neg, BigSub(X, Y), e0, FALSE)

DSub(x, y) == DAdd(x, DNeg(y))

DMul(x, y) ==
    IF x.cls = "nan" \/ y.cls = "nan" THEN DNaN
    ELSE IF x.cls = "inf" \/ y.cls = "inf"
    THEN (IF DIsZero(x) \/ DIsZero(y) THEN DNaN ELSE DInf(x.neg # y.neg))
    ELSE DRound(x.neg # y.neg, BigMul(x.m, y.m), x.e + y.e, FALSE)

DDiv(x, y) ==
    IF x.cls = "nan" \/ y.cls = "nan" THEN DNaN
    ELSE IF x.cls = "inf"
    THEN (IF y.cls = "inf" THEN DNaN ELSE DInf(x.neg # y.neg))
    ELSE IF y.cls = "inf" THEN DZero
    ELSE IF DIsZero(y)
    THEN (IF DIsZero(x) THEN DNaN ELSE DInf(x.neg))
    ELSE IF DIsZero(x) THEN DZero
    ELSE LET dm == BigDivMod(BigShl(x.m, MantBits + 3), y.m)
         IN  DRound(x.neg # y.neg, dm.q, x.e - y.e - (MantBits + 3), dm.r # <<>>)

\* x < y (false when either is a NaN)
DLt(x, y) ==
    LET d == DSub(y, x)
    IN  d.cls # "nan" /\ ~d.neg /\ (d.cls = "inf" \/ d.m # <<>>)

DLe(x, y) == x.cls # "nan" /\ y.cls # "nan" /\ ~DLt(y, x)

\* (int)x: truncation toward zero.  A NaN, an infinity or a value outside the
\* range of int is undefined behaviour: x86-64 (cvttsd2si) yields INT_MIN,
\* AArch64 (fcvtzs) yields 0 for a NaN and saturates otherwise.
IntCast(x) ==
    IF x.cls = "nan" THEN {INT_MIN, 0}
    ELSE IF x.cls = "inf" THEN (IF x.neg THEN {INT_MIN} ELSE {INT_MIN, INT_MAX})
    ELSE IF DIsZero(x) THEN {0}
    ELSE IF BigBitLen(x.m) + x.e <= 0 THEN {0}
    ELSE IF BigBitLen(x.m) + x.e <= 31
    THEN LET mag == BigToNat(IF x.e >= 0 THEN BigShl(x.m, x.e) ELSE BigShr(x.m, -x.e))
         IN  {IF x.neg THEN -mag ELSE mag}
    ELSE IF x.neg THEN {INT_MIN} ELSE {INT_MIN, INT_MAX}

(***************************************************************************)
(* The histogram mapping, the comparator and the sort.                     *)
(***************************************************************************)
BUCKETS == 200

\* hist_idx() without its clamp to the last bucket
hist_idx_noclamp(value, buckets) ==
    IF DLt(value, DFromInt(1))
    THEN IntCast(DMul(DFromInt(10), value))
    ELSE IF DLt(value, DFromInt(20))
    THEN {IntAddWrap(c, 10) : c \in IntCast(DSub(value, DFromInt(1)))}
    ELSE {IntAddWrap(c, 29) :
            c \in IntCast(DDiv(DSub(value, DFromInt(20)), DFromInt(10)))}

\* hist_idx(): the indexes a build can return for value.  The set has one
\* element unless a cast is undefined, see IntCast.
hist_idx(value, buckets) ==
    LET raw == IF DLt(value, DFromInt(1))
               THEN IntCast(DMul(DFromInt(10), value))
               ELSE IF DLt(value, DFromInt(20))
               THEN {IntAddWrap(c, 10) : c \in IntCast(DSub(value, DFromInt(1)))}
               ELSE {IntAddWrap(c, 29) :
                       c \in IntCast(DDiv(DSub(value, DFromInt(20)), DFromInt(10)))}
    IN  {IF r > buckets - 1 THEN buckets - 1 ELSE r : r \in raw}

\* hist_val() without the middle band's min_range_value
hist_val_nomin(index) ==
    IF index < 10 THEN DDiv(DFromInt(index), DFromInt(10))
    ELSE IF index < 29 THEN DSub(DFromInt(index), DFromInt(10))
    ELSE DAdd(DMul(DFromInt(index - 29), DFromInt(10)), DFromInt(20))

\* hist_val(): histogram index to minimum value
hist_val(index) ==
    IF index < 10 THEN DDiv(DFromInt(index), DFromInt(10))
    ELSE IF index < 29 THEN DAdd(DSub(DFromInt(index), DFromInt(10)), DFromInt(1))
    ELSE DAdd(DMul(DFromInt(index - 29), DFromInt(10)), DFromInt(20))

\* ullcmp(): the difference of two unsigned long long, returned as an int
ullcmp(a, b) == IntOfLow32(U64Sub(a, b))

RECURSIVE SortedInsert(_, _)
SortedInsert(s, x) ==
    IF s = <<>> THEN <<x>>
    ELSE IF ullcmp(s[Len(s)], x) <= 0 THEN Append(s, x)
    ELSE Append(SortedInsert(SubSeq(s, 1, Len(s) - 1), x), s[Len(s)])

RECURSIVE qsort(_)
\* qsort(runs_us, runs, sizeof (time_us), ullcmp): a stable comparison sort
\* that orders the elements as the comparator tells it to
qsort(s) ==
    IF s = <<>> THEN <<>>
    ELSE SortedInsert(qsort(SubSeq(s, 1, Len(s) - 1)), s[Len(s)])

\* 100 * (((double)run_us / fastest_us) - 1): percent slower than the fastest
PctSlower(run_us, fastest_us) ==
    DMul(DFromInt(100), DSub(DDiv(DFromU64(run_us), DFromU64(fastest_us)), DFromInt(1)))

\* (double)100 * (run_us - fastest_us) / fastest_us: a percentile's deviation
Deviation(run_us, fastest_us) ==
    DDiv(DMul(DFromInt(100), DFromU64(U64Sub(run_us, fastest_us))), DFromU64(fastest_us))

(***************************************************************************)
(* Bounds of the model and its inputs.                                     *)
(***************************************************************************)
\* the largest run count given on the command line
MaxRuns == 3

\* Elapsed times a run can record, in microseconds: a run shorter than the
\* clock's resolution, two ordinary times 15% apart, and a run 2^31 + 1
\* microseconds (about 36 minutes) longer than the shortest ordinary one.
Times == {BigZero, BigOf(100), BigOf(115), BigAdd(BigShl(BigOne, 31), BigOf(101))}

\* what a read of memory the program never wrote can yield
Indeterminate == {BigZero, BigOf(33)}

\* calibrated iteration counts handed to the run loop
IterCounts == {BigOf(1000000)}

VARIABLES
    \* main: the run loop, the post-processing and the summary
    pc,               \* where main is
    max_runs, iter_count, g_mainrun, i, runs,
    time_us, last_us, diff_pct, fastest_time_us, slowest_time_us,
    runs_us,          \* the elements of runs_us written so far (runs_us[k] at k + 1)
    hist,             \* hist[b] at b + 1
    idx, max_idx, total_time_us, max_bucket_count,
    report,           \* what the percentile and summary lines print
    ub,               \* the undefined operations performed so far
    \* find_count, test_run and the worker thread
    cpc,              \* where the controlling thread is
    wpc,              \* where the worker thread is
    proc,             \* whether the process is still running
    g_testrun, fc_iter_count, sigusr1, sigpend,
    target_us, fc_i, fc_time_us, fc_fastest_time_us, fc_ret,
    \* memrun and memtest
    mpc, g_memsize, memp, m_i, m_count, m_read,
    \* hist_idx and hist_val applied to drawn inputs
    hpc, h_e, h_f, h_i, h_v, h_idx

mainVars == <<pc, max_runs, iter_count, g_mainrun, i, runs, time_us, last_us,
              diff_pct, fastest_time_us, slowest_time_us, runs_us, hist, idx, max_idx,
              total_time_us, max_bucket_count, report, ub>>
calVars == <<cpc, wpc, proc, g_testrun, fc_iter_count, sigusr1, sigpend,
             target_us, fc_i, fc_time_us, fc_fastest_time_us, fc_ret>>
memVars == <<mpc, g_memsize, memp, m_i, m_count, m_read>>
histVars == <<hpc, h_e, h_f, h_i, h_v, h_idx>>

vars == <<mainVars, calVars, memVars, histVars>>

\* the parts of the program a specification does not run
MainIdle ==
    /\ pc = "idle" /\ max_runs = 0 /\ iter_count = BigZero /\ g_mainrun = 1
    /\ i = 0 /\ runs = 0 /\ time_us = BigZero /\ last_us = BigZero /\ diff_pct = DZero
    /\ fastest_time_us = ULLONG_MAX /\ slowest_time_us = BigZero
    /\ runs_us = <<>> /\ hist = <<>> /\ idx = 0 /\ max_idx = 0
    /\ total_time_us = BigZero /\ max_bucket_count = 0 /\ report = <<>> /\ ub = {}
CalIdle ==
    /\ cpc = "idle" /\ wpc = "idle" /\ proc = "running" /\ g_testrun = 1
    /\ fc_iter_count = BigZero /\ sigusr1 = "SIG_DFL" /\ sigpend = FALSE
    /\ target_us = BigZero /\ fc_i = 0 /\ fc_time_us = BigZero
    /\ fc_fastest_time_us = ULLONG_MAX /\ fc_ret = BigZero
MemIdle ==
    /\ mpc = "idle" /\ g_memsize = 0 /\ memp = 0 /\ m_i = 0 /\ m_count = 0
    /\ m_read = -1
HistIdle ==
    /\ hpc = "idle" /\ h_e = 0 /\ h_f = 0 /\ h_i = 0 /\ h_v = DZero /\ h_idx = 0

(***************************************************************************)
(* main, from the run loop on.                                             *)
(***************************************************************************)
Init ==
    /\ pc = "loop"
    /\ max_runs \in 0..MaxRuns
    /\ iter_count \in IterCounts
    /\ g_mainrun = 1
    /\ i = 0
    /\ runs = 0
    /\ time_us = BigZero
    /\ last_us = BigZero
    /\ diff_pct = DZero
    /\ fastest_time_us = ULLONG_MAX
    /\ slowest_time_us = BigZero
    /\ runs_us = <<>>
    /\ hist = [b \in 1..BUCKETS |-> 0]
    /\ idx = 0
    /\ max_idx = 0
    /\ total_time_us = BigZero
    /\ max_bucket_count = 0
    /\ report = <<>>
    /\ ub = {}
    /\ CalIdle /\ MemIdle /\ HistIdle

\* mainstop() with a mid-run abort: the run in progress is dropped
mainstop_midrun ==
    /\ pc \in {"loop", "run"}
    /\ g_mainrun = 1
    /\ g_mainrun' = 0
    /\ pc' = "loop"
    /\ UNCHANGED <<max_runs, iter_count, i, runs, time_us, last_us, diff_pct,
                   fastest_time_us, slowest_time_us, runs_us, hist, idx, max_idx,
                   total_time_us, max_bucket_count, report, ub>>
    /\ UNCHANGED <<calVars, memVars, histVars>>

\* mainstop(): the SIGINT handler, which can run at any point of the run loop
mainstop ==
    /\ pc \in {"loop", "run"}
    /\ g_mainrun = 1
    /\ g_mainrun' = 0
    /\ UNCHANGED <<pc, max_runs, iter_count, i, runs, time_us, last_us, diff_pct,
                   fastest_time_us, slowest_time_us, runs_us, hist, idx, max_idx,
                   total_time_us, max_bucket_count, report, ub>>
    /\ UNCHANGED <<calVars, memVars, histVars>>

\* for (i = 0; g_mainrun && i < max_runs; i++): the test, then either the start
\* of a run (last_us = time_us) or the exit to the post-processing (runs = i;
\* total_time_us = 0; max_idx = 0; i = 0)
LoopTest ==
    /\ pc = "loop"
    /\ IF g_mainrun # 0 /\ i < max_runs
       THEN /\ pc' = "run"
            /\ last_us' = time_us
            /\ UNCHANGED <<i, runs, total_time_us, max_idx>>
       ELSE /\ pc' = "post"
            /\ runs' = i
            /\ total_time_us' = BigZero
            /\ max_idx' = 0
            /\ i' = 0
            /\ UNCHANGED last_us
    /\ UNCHANGED <<max_runs, iter_count, g_mainrun, time_us, diff_pct, fastest_time_us,
                   slowest_time_us, runs_us, hist, idx, max_bucket_count, report, ub>>
    /\ UNCHANGED <<calVars, memVars, histVars>>

\* run(iter_count) returns, the times are taken and the run is recorded
\* (if (last_us) diff_pct = 100 * (((double)time_us / last_us) - 1)); the
\* loop's i++ follows.  What verbose mode adds is only printed.
RunBody ==
    /\ pc = "run"
    /\ \E t \in Times :
         /\ time_us' = t
         /\ diff_pct' = IF last_us # BigZero THEN PctSlower(t, last_us) ELSE diff_pct
         /\ fastest_time_us' = IF BigLt(t, fastest_time_us) THEN t ELSE fastest_time_us
         /\ slowest_time_us' = IF BigLt(slowest_time_us, t) THEN t ELSE slowest_time_us
         /\ runs_us' = Append(runs_us, t)
    /\ i' = i + 1
    /\ pc' = "loop"
    /\ UNCHANGED <<max_runs, iter_count, g_mainrun, runs, last_us, hist, idx, max_idx,
                   total_time_us, max_bucket_count, report, ub>>
    /\ UNCHANGED <<calVars, memVars, histVars>>

\* one iteration of the post-processing loop
PostStep ==
    /\ pc = "post"
    /\ i < runs
    /\ \E value \in {PctSlower(runs_us[i + 1], fastest_time_us)} :
       \E x \in hist_idx(value, BUCKETS) :
         /\ idx' = x
         /\ IF x < 0
            THEN /\ pc' = "exit1"
                 /\ UNCHANGED <<hist, max_idx, total_time_us, i, ub>>
            ELSE /\ pc' = "post"
                 /\ IF x < BUCKETS
                    THEN hist' = [hist EXCEPT ![x + 1] = @ + 1] /\ ub' = ub
                    ELSE hist' = hist /\ ub' = ub \cup {"hist[idx] outside the array"}
                 /\ max_idx' = IF x > max_idx THEN x ELSE max_idx
                 /\ total_time_us' = U64Add(total_time_us, runs_us[i + 1])
                 /\ i' = i + 1
    /\ UNCHANGED <<max_runs, iter_count, g_mainrun, runs, time_us, last_us, diff_pct,
                   fastest_time_us, slowest_time_us, runs_us, max_bucket_count, report>>
    /\ UNCHANGED <<calVars, memVars, histVars>>

\* the largest of hist[0..k], at least 0
MaxCount(h, k) ==
    CHOOSE m \in {0} \cup {h[b + 1] : b \in 0..k} : \A b \in 0..k : h[b + 1] <= m

\* the loop that finds max_bucket_count, and the histogram's rows
PrintHistogram ==
    /\ pc = "post"
    /\ i >= runs
    /\ max_bucket_count' = MaxCount(hist, max_idx)
    /\ i' = max_idx + 1
    /\ pc' = "sort"
    /\ UNCHANGED <<max_runs, iter_count, g_mainrun, runs, time_us, last_us, diff_pct,
                   fastest_time_us, slowest_time_us, runs_us, hist, idx, max_idx,
                   total_time_us, report, ub>>
    /\ UNCHANGED <<calVars, memVars, histVars>>

\* qsort(runs_us, runs, sizeof (time_us), ullcmp)
Sort ==
    /\ pc = "sort"
    /\ runs_us' = qsort(runs_us)
    /\ pc' = "percentiles"
    /\ UNCHANGED <<max_runs, iter_count, g_mainrun, i, runs, time_us, last_us, diff_pct,
                   fastest_time_us, slowest_time_us, hist, idx, max_idx,
                   total_time_us, max_bucket_count, report, ub>>
    /\ UNCHANGED <<calVars, memVars, histVars>>

\* runs_us[k] as the program reads it: an element it wrote, or whatever lies
\* at an index outside 0..runs-1
ReadRun(k, junk) == IF k >= 0 /\ k < Len(runs_us) THEN runs_us[k + 1] ELSE junk
ReadUB(k) == IF k >= 0 /\ k < Len(runs_us) THEN {} ELSE {"runs_us[k] outside the runs"}

Figure(k, junk) ==
    [k |-> k, val |-> ReadRun(k, junk), dev |-> Deviation(ReadRun(k, junk), fastest_time_us)]

\* the percentile a printed figure stands for
Percent(f) == IF f = "p90" THEN 90 ELSE IF f = "p99" THEN 99
              ELSE IF f = "p100" THEN 100 ELSE 50

\* runs * p / 100 - 1: the index read for the p-th percentile
PctIndex(p) == (runs * p) \div 100 - 1

\* the "Percentiles:" line: each percentile printed, with the index read for
\* it, the element read and the deviation printed
Percentiles ==
    /\ pc = "percentiles"
    /\ \E junk \in Indeterminate :
         /\ report' = [f \in {"p100"} \cup (IF runs >= 3 THEN {"p50"} ELSE {})
                                      \cup (IF runs >= 10 THEN {"p90"} ELSE {})
                                      \cup (IF runs >= 100 THEN {"p99"} ELSE {})
                          |-> Figure(PctIndex(Percent(f)), junk)]
         /\ ub' = ub \cup ReadUB(PctIndex(100))
    /\ pc' = "summary"
    /\ UNCHANGED <<max_runs, iter_count, g_mainrun, i, runs, time_us, last_us, diff_pct,
                   fastest_time_us, slowest_time_us, runs_us, hist, idx, max_idx,
                   total_time_us, max_bucket_count>>
    /\ UNCHANGED <<calVars, memVars, histVars>>

\* the "Fastest:" and "Fastest rate:" lines: the median is read (no deviation
\* is printed for it), and iter_count * 1000000 is divided by runs_us[0], by
\* the median, by total_time_us / runs and by runs_us[runs - 1]
Summary ==
    /\ pc = "summary"
    /\ \E junk \in Indeterminate :
         LET k == PctIndex(50)
             med == ReadRun(k, junk)
             mean == IF runs = 0 THEN BigZero
                     ELSE BigDivMod(total_time_us, BigOf(runs)).q
             zero == runs = 0 \/ BigZero \in {ReadRun(0, junk), med, mean,
                                              ReadRun(runs - 1, junk)}
         IN  /\ report' = [f \in DOMAIN report \cup {"median"} |->
                             IF f = "median" THEN [k |-> k, val |-> med, dev |-> DZero]
                             ELSE report[f]]
             /\ ub' = ub \cup ReadUB(k) \cup ReadUB(0) \cup ReadUB(runs - 1)
             /\ pc' = IF zero THEN "sigfpe" ELSE "exit0"
    /\ UNCHANGED <<max_runs, iter_count, g_mainrun, i, runs, time_us, last_us, diff_pct,
                   fastest_time_us, slowest_time_us, runs_us, hist, idx, max_idx,
                   total_time_us, max_bucket_count>>
    /\ UNCHANGED <<calVars, memVars, histVars>>

Next ==
    \/ mainstop
    \/ LoopTest
    \/ RunBody
    \/ PostStep
    \/ PrintHistogram
    \/ Sort
    \/ Percentiles
    \/ Summary

Spec == Init /\ [][Next]_vars

(***************************************************************************)
(* Properties of the run loop and the summary.                             *)
(***************************************************************************)
HistTotal == SumRange(hist, 1, BUCKETS)

AfterPost == {"sort", "percentiles", "summary", "exit0", "sigfpe"}

C2_ZeroRunsRejected == ~(runs = 0 /\ pc \in AfterPost)

\* C3: the stop request is honoured only between runs.  A run that has started
\* completes and is recorded, whether or not the flag falls meanwhile; once the
\* loop test sees the flag down no run starts and the loop exits to the
\* post-processing; and at that exit the number of completed runs is the
\* number of runs recorded, which is the number of runs started.
C3_StopBetweenRuns ==
    [][ /\ pc = "run" =>
            \/ pc' = "run" /\ runs_us' = runs_us
            \/ pc' = "loop" /\ Len(runs_us') = Len(runs_us) + 1 /\ i' = i + 1
        /\ (pc = "loop" /\ g_mainrun = 0) => pc' = "post"
        /\ (pc = "loop" /\ pc' = "run") => Len(runs_us) = i /\ runs_us' = runs_us
        /\ (pc = "loop" /\ pc' # "loop" /\ pc' # "run") =>
            pc' = "post" /\ runs' = Len(runs_us) /\ runs' = i
      ]_vars

\* C3 witness: the stop arrived after exactly two of three requested runs; the
\* loop has exited with two runs recorded.
C3_Witness ==
    pc = "post" /\ g_mainrun = 0 /\ max_runs = 3 /\ runs = 2 /\ Len(runs_us) = 2

\* C4: every figure of the summary is the rank-th smallest run time with
\* rank = floor(runs * p / 100), and 1 <= rank <= runs; the 50th, 90th and 99th
\* percentiles are reported only from 3, 10 and 100 runs, the 100th and the
\* median of the summary lines for every run count from 1.
C4_PercentileRank ==
    (pc = "exit0" /\ runs >= 1) =>
        /\ DOMAIN report = {"p100", "median"} \cup (IF runs >= 3 THEN {"p50"} ELSE {})
                              \cup (IF runs >= 10 THEN {"p90"} ELSE {})
                              \cup (IF runs >= 100 THEN {"p99"} ELSE {})
        /\ \A f \in DOMAIN report :
             LET rank == report[f].k + 1
             IN  /\ rank = (runs * Percent(f)) \div 100
                 /\ rank >= 1 /\ rank <= runs
                 /\ report[f].val = runs_us[rank]

Ascending(s) == \A k \in 1..(Len(s) - 1) : BigLe(s[k], s[k + 1])

\* C5: after the sort the run times are in ascending order, and the 100th
\* percentile is the slowest run.
C5_SortedAscending ==
    (pc \in {"percentiles", "summary", "exit0", "sigfpe"} /\ runs >= 1) =>
        /\ Ascending(runs_us)
        /\ runs_us[runs] = slowest_time_us
(***************************************************************************)
(* hist_idx and hist_val on drawn inputs: the bucket of a run of h_e         *)
(* microseconds when the fastest run took h_f, and the index that the      *)
(* minimum value of bucket h_i maps back to.                               *)
(***************************************************************************)
\* the fastest times drawn, and how much slower (in microseconds) a run is
HistFastest == {100, 1000}
MaxSlower == 250
HistRuns(f) == {f + d : d \in 0..MaxSlower} \cup {20 * f, 2000 * f}

HistInit ==
    /\ \/ /\ hpc = "run"
          /\ h_f \in HistFastest
          /\ h_e \in HistRuns(h_f)
          /\ h_i = 0
       \/ /\ hpc = "index"
          /\ h_f = 0 /\ h_e = 0
          /\ h_i \in 0..(BUCKETS - 1)
    /\ h_v = DZero
    /\ h_idx = 0
    /\ MainIdle /\ CalIdle /\ MemIdle

\* idx = hist_idx(100 * (((double)runs_us[i] / fastest_time_us) - 1), BUCKETS)
HistBucket ==
    /\ hpc = "run"
    /\ h_v' = PctSlower(BigOf(h_e), BigOf(h_f))
    /\ h_idx' \in hist_idx(h_v', BUCKETS)
    /\ hpc' = "bucketed"
    /\ UNCHANGED <<h_e, h_f, h_i>>
    /\ UNCHANGED <<mainVars, calVars, memVars>>

\* hist_idx(hist_val(i), BUCKETS)
HistRoundTrip ==
    /\ hpc = "index"
    /\ h_v' = hist_val(h_i)
    /\ h_idx' \in hist_idx(h_v', BUCKETS)
    /\ hpc' = "mapped back"
    /\ UNCHANGED <<h_e, h_f, h_i>>
    /\ UNCHANGED <<mainVars, calVars, memVars>>

HistNext ==
    \/ HistBucket
    \/ HistRoundTrip

HistSpec == HistInit /\ [][HistNext]_vars

\* the step-size band of an index: 0-9, 10-28, 29-199
Band(b) == IF b < 10 THEN 0 ELSE IF b < 29 THEN 1 ELSE 2

\* C6: for every index i in 0..199, hist_idx(hist_val(i), 200) is an index
\* that is at most i and lies in the band of i; it is i itself, hist_val being
\* the inverse of the bucketing rule on the bucket minimums.
C6_RoundTrip ==
    hpc = "mapped back" =>
        /\ h_idx >= 0 /\ h_idx <= h_i
        /\ Band(h_idx) = Band(h_i)
        /\ h_idx = h_i

\* C6 witness: bucket 7, whose minimum 0.7 no double holds exactly, and the
\* last bucket have been mapped to their values and back.
C6_Witness == hpc = "mapped back" /\ h_i \in {7, BUCKETS - 1} /\ h_idx = h_i

\* the bucket the rule gives a run of e microseconds when the fastest took f:
\* v = 100 * (e / f - 1) = 100 * (e - f) / f in exact arithmetic
RuleBucket(e, f) ==
    LET n == 100 * (e - f)
        b == IF n < f THEN (10 * n) \div f
             ELSE IF n < 20 * f THEN 10 + (n - f) \div f
             ELSE 29 + (n - 20 * f) \div (10 * f)
    IN  IF b > BUCKETS - 1 THEN BUCKETS - 1 ELSE b

\* C7: for a run of e microseconds and a fastest run of f, v = 100 * (e/f - 1)
\* is at least 0 and the bucket incremented is floor(10 v) below 1,
\* 10 + floor(v - 1) below 20 and 29 + floor((v - 20) / 10) from 20, clamped to
\* 199.
C7_BucketRule ==
    hpc = "bucketed" =>
        /\ DLe(DZero, h_v)
        /\ h_idx = RuleBucket(h_e, h_f)
(***************************************************************************)
(* Calibration with the spin workload: find_count, test_run and the        *)
(* worker thread running spintest.                                         *)
(***************************************************************************)
test_us == 100 * 1000
test_runs == 5

\* the worker's count is capped: what matters is where the stop falls
MaxSpin == 3
\* the target in milliseconds given on the command line
MaxTargetMs == 2
\* elapsed times of a timed trial, in microseconds
CalTimes == {BigZero, BigOf(500), BigOf(1000)}

CalInit ==
    /\ cpc = "test_run"
    /\ wpc = "not created"
    /\ proc = "running"
    /\ g_testrun = 1
    /\ fc_iter_count = BigZero
    /\ sigusr1 = "SIG_DFL"
    /\ sigpend = FALSE
    /\ target_us \in {BigOf(1000 * ms) : ms \in 1..MaxTargetMs}
    /\ fc_i = 0
    /\ fc_time_us = BigZero
    /\ fc_fastest_time_us = ULLONG_MAX
    /\ fc_ret = BigZero
    /\ MainIdle /\ MemIdle /\ HistIdle

\* test_run(): g_testrun = 1; (*count) = 0
TestRunReset ==
    /\ proc = "running" /\ cpc = "test_run"
    /\ test_us # 0
    /\ g_testrun' = 1
    /\ fc_iter_count' = BigZero
    /\ cpc' = "create"
    /\ UNCHANGED <<wpc, proc, sigusr1, sigpend, target_us, fc_i, fc_time_us,
                   fc_fastest_time_us, fc_ret>>
    /\ UNCHANGED <<mainVars, memVars, histVars>>

\* pthread_create(&thread, NULL, loop, count) succeeds
ThreadCreate ==
    /\ proc = "running" /\ cpc = "create"
    /\ wpc' = "created"
    /\ cpc' = "usleep"
    /\ UNCHANGED <<proc, g_testrun, fc_iter_count, sigusr1, sigpend, target_us, fc_i,
                   fc_time_us, fc_fastest_time_us, fc_ret>>
    /\ UNCHANGED <<mainVars, memVars, histVars>>

\* pthread_create fails: perror and exit(1)
ThreadCreateFails ==
    /\ proc = "running" /\ cpc = "create"
    /\ proc' = "exit(1)"
    /\ UNCHANGED <<cpc, wpc, g_testrun, fc_iter_count, sigusr1, sigpend, target_us,
                   fc_i, fc_time_us, fc_fastest_time_us, fc_ret>>
    /\ UNCHANGED <<mainVars, memVars, histVars>>

\* usleep(target_us) is over; pthread_kill(thread, SIGUSR1) leaves the signal
\* pending on the worker, which is still there, so the call cannot fail
ThreadKill ==
    /\ proc = "running" /\ cpc = "usleep"
    /\ sigpend' = TRUE
    /\ cpc' = "join"
    /\ UNCHANGED <<wpc, proc, g_testrun, fc_iter_count, sigusr1, target_us, fc_i,
                   fc_time_us, fc_fastest_time_us, fc_ret>>
    /\ UNCHANGED <<mainVars, memVars, histVars>>

\* The worker takes the pending SIGUSR1: teststop() runs (g_testrun = 0) if
\* the worker has installed it, the default action ends the process if not.
SignalDelivered ==
    /\ proc = "running" /\ sigpend
    /\ wpc \in {"created", "spinning"}
    /\ sigpend' = FALSE
    /\ IF sigusr1 = "teststop"
       THEN g_testrun' = 0 /\ proc' = proc
       ELSE g_testrun' = g_testrun /\ proc' = "terminated by SIGUSR1"
    /\ UNCHANGED <<cpc, wpc, fc_iter_count, sigusr1, target_us, fc_i, fc_time_us,
                   fc_fastest_time_us, fc_ret>>
    /\ UNCHANGED <<mainVars, memVars, histVars>>

\* spintest(): signal(SIGUSR1, teststop)
SpinInstall ==
    /\ proc = "running" /\ wpc = "created"
    /\ sigusr1' = "teststop"
    /\ wpc' = "spinning"
    /\ UNCHANGED <<cpc, proc, g_testrun, fc_iter_count, sigpend, target_us, fc_i,
                   fc_time_us, fc_fastest_time_us, fc_ret>>
    /\ UNCHANGED <<mainVars, memVars, histVars>>

\* spintest(): for (;g_testrun;) { (*count)++; } and the return
SpinLoop ==
    /\ proc = "running" /\ wpc = "spinning"
    /\ IF g_testrun # 0
       THEN /\ BigLt(fc_iter_count, BigOf(MaxSpin))
            /\ fc_iter_count' = U64Add(fc_iter_count, BigOne)
            /\ wpc' = wpc
       ELSE /\ wpc' = "returned"
            /\ fc_iter_count' = fc_iter_count
    /\ UNCHANGED <<cpc, proc, g_testrun, sigusr1, sigpend, target_us, fc_i, fc_time_us,
                   fc_fastest_time_us, fc_ret>>
    /\ UNCHANGED <<mainVars, memVars, histVars>>

\* pthread_join(thread, NULL) returns, and test_run with it
ThreadJoin ==
    /\ proc = "running" /\ cpc = "join"
    /\ wpc = "returned"
    /\ cpc' = "trials"
    /\ fc_i' = 0
    /\ UNCHANGED <<wpc, proc, g_testrun, fc_iter_count, sigusr1, sigpend, target_us,
                   fc_time_us, fc_fastest_time_us, fc_ret>>
    /\ UNCHANGED <<mainVars, memVars, histVars>>

\* find_count(): one timed trial of run(iter_count)
Trial ==
    /\ proc = "running" /\ cpc = "trials"
    /\ fc_i < test_runs
    /\ \E t \in CalTimes :
         /\ fc_time_us' = t
         /\ fc_fastest_time_us' = IF BigLt(t, fc_fastest_time_us) THEN t
                                  ELSE fc_fastest_time_us
    /\ fc_i' = fc_i + 1
    /\ UNCHANGED <<cpc, wpc, proc, g_testrun, fc_iter_count, sigusr1, sigpend,
                   target_us, fc_ret>>
    /\ UNCHANGED <<mainVars, memVars, histVars>>

\* find_count(): return iter_count * target_us / fastest_time_us
FindCountReturn ==
    /\ proc = "running" /\ cpc = "trials"
    /\ fc_i >= test_runs
    /\ IF fc_fastest_time_us = BigZero
       THEN proc' = "SIGFPE" /\ UNCHANGED <<cpc, fc_ret>>
       ELSE /\ fc_ret' = BigDivMod(U64Mul(fc_iter_count, target_us),
                                   fc_fastest_time_us).q
            /\ cpc' = "returned"
            /\ proc' = proc
    /\ UNCHANGED <<wpc, g_testrun, fc_iter_count, sigusr1, sigpend, target_us, fc_i,
                   fc_time_us, fc_fastest_time_us>>
    /\ UNCHANGED <<mainVars, memVars, histVars>>

CalNext ==
    \/ TestRunReset
    \/ ThreadCreate
    \/ ThreadCreateFails
    \/ ThreadKill
    \/ SignalDelivered
    \/ SpinInstall
    \/ SpinLoop
    \/ ThreadJoin
    \/ Trial
    \/ FindCountReturn

CalSpec == CalInit /\ [][CalNext]_vars

\* C8: find_count returns candidate_count * target_duration / best_elapsed,
\* a well-defined non-negative integer, whatever the candidate count, the
\* target and the five trial times are.
C8_Extrapolation ==
    /\ proc # "SIGFPE"
    /\ cpc = "returned" =>
         LET kd == BigMul(fc_iter_count, target_us)
         IN  /\ BigLe(BigMul(fc_ret, fc_fastest_time_us), kd)
             /\ BigLt(kd, BigMul(BigAdd(fc_ret, BigOne), fc_fastest_time_us))

\* C9: in every interleaving a started probe completes: the stop request
\* never ends the process, and when the controller is past the join the worker
\* has seen the flag down and returned.
C9_StopProtocol ==
    /\ proc # "terminated by SIGUSR1"
    /\ cpc \in {"trials", "returned"} => wpc = "returned" /\ g_testrun = 0

(***************************************************************************)
(* The memory workload: memrun and memtest over the working set.           *)
(***************************************************************************)
g_stride == 64

\* the working set in megabytes (-m), and the iterations a loop is followed for
MaxMbytes == 1
MaxScan == 16400

MemInit ==
    /\ mpc \in {"memrun", "memtest"}
    /\ g_memsize \in {mb * 1024 * 1024 : mb \in 1..MaxMbytes}
    /\ memp = 0
    /\ m_i = 0
    /\ m_count = IF mpc = "memrun" THEN MaxScan ELSE 0
    /\ m_read = -1
    /\ cpc = "join" /\ wpc = "idle" /\ proc = "running" /\ g_testrun = 1
    /\ fc_iter_count = BigZero /\ sigusr1 = "teststop" /\ sigpend = FALSE
    /\ target_us = BigZero /\ fc_i = 0 /\ fc_time_us = BigZero
    /\ fc_fastest_time_us = ULLONG_MAX /\ fc_ret = BigZero
    /\ MainIdle /\ HistIdle

\* memp += g_stride; if (memp > (g_mem + g_memsize)) memp = g_mem;
\* memp is held as its offset from g_mem
MemAdvance(p) == IF p + g_stride > g_memsize THEN 0 ELSE p + g_stride

\* memrun(): one iteration of for (i = 0; i < count; i++)
MemRunStep ==
    /\ mpc = "memrun"
    /\ m_i < m_count
    /\ m_read' = memp
    /\ memp' = MemAdvance(memp)
    /\ m_i' = m_i + 1
    /\ UNCHANGED <<mpc, g_memsize, m_count>>
    /\ UNCHANGED <<mainVars, calVars, histVars>>

\* memrun(): return i
MemRunReturn ==
    /\ mpc = "memrun"
    /\ m_i >= m_count
    /\ mpc' = "returned"
    /\ UNCHANGED <<g_memsize, memp, m_i, m_count, m_read>>
    /\ UNCHANGED <<mainVars, calVars, histVars>>

\* memtest(): one iteration of for (;g_testrun;), m_count being *count
MemTestStep ==
    /\ mpc = "memtest"
    /\ g_testrun # 0
    /\ m_count < MaxScan
    /\ m_read' = memp
    /\ memp' = MemAdvance(memp)
    /\ m_count' = m_count + 1
    /\ UNCHANGED <<mpc, g_memsize, m_i>>
    /\ UNCHANGED <<mainVars, calVars, histVars>>

\* teststop(): the worker takes the controller's SIGUSR1
teststop ==
    /\ mpc = "memtest"
    /\ g_testrun # 0
    /\ g_testrun' = 0
    /\ UNCHANGED <<cpc, wpc, proc, fc_iter_count, sigusr1, sigpend, target_us, fc_i,
                   fc_time_us, fc_fastest_time_us, fc_ret>>
    /\ UNCHANGED <<mainVars, memVars, histVars>>

\* memtest(): return NULL
MemTestReturn ==
    /\ mpc = "memtest"
    /\ g_testrun = 0
    /\ mpc' = "returned"
    /\ UNCHANGED <<g_memsize, memp, m_i, m_count, m_read>>
    /\ UNCHANGED <<mainVars, calVars, histVars>>

MemNext ==
    \/ MemRunStep
    \/ MemRunReturn
    \/ MemTestStep
    \/ teststop
    \/ MemTestReturn

MemSpec == MemInit /\ [][MemNext]_vars

\* C10: every byte that memrun and memtest read lies inside the working set:
\* 0 <= offset < g_memsize.
C10_ScanInsideWorkingSet == m_read # -1 => (m_read >= 0 /\ m_read < g_memsize)
====
